---- MODULE Spec2Model ----
(***************************************************************************)
(* Model of src/main.py: the LangChain tutorial script.  main() loads the  *)
(* environment, runs four demonstrations (six chain.run calls) and may     *)
(* enter interactive_mode, a read-line loop.  Texts are sequences of       *)
(* string atoms: a console line is a sequence of one-character atoms, so   *)
(* that str.strip and str.lower are computed, and a template is a sequence *)
(* of literal and placeholder tokens, so that rendering is computed.       *)
(***************************************************************************)
EXTENDS Naturals, Integers, Sequences, FiniteSets, TLC

VARIABLES
    pc,         \* position of the single thread of control in main()
    environ,    \* process environment after load_dotenv()
    chain,      \* the chain object of the running demonstration / mode
    topicIdx,   \* index of the for loop of demonstrate_simple_chain
    calls,      \* chain.run calls made so far, in order, with their outcome
    printed,    \* what print() has written that matters: notices, responses
    answer,     \* the line read by main() at the interactive-mode question
    linesRead,  \* raw lines read by input() in interactive_mode
    raised      \* the exception that ended the program, if any

vars == <<pc, environ, chain, topicIdx, calls, printed, answer, linesRead, raised>>

\* Bound on the number of lines typed in interactive mode.
MaxLines == 3

-----------------------------------------------------------------------------
(* Inputs from the environment of the program.                             *)

NoEnv == [n \in {} |-> ""]

Environments ==
    { NoEnv,
      [n \in {"OPENAI_API_KEY"} |-> ""],
      [n \in {"OPENAI_API_KEY"} |-> "sk-test"] }

\* Text the backend may return for a call.
Responses == {"resp_a"}

Whitespace == {" ", "\t"}

\* Lines the user may type in interactive mode.
Lines ==
    { <<>>,
      <<" ", "\t">>,
      <<"e", "x", "i", "t">>,
      <<" ", "E", "x", "I", "T", " ">>,
      <<"h", "i">>,
      <<" ", "H", "i", " ">>,
      <<"e", "x", "i", "t", "s">> }

\* Lines the user may type at the interactive-mode question.
Answers ==
    { <<"y", "e", "s">>,
      <<" ", "Y", "E", "S", "\t">>,
      <<"Y">>,
      <<>>,
      <<" ">>,
      <<"n", "o">>,
      <<"y", "e">>,
      <<"y", " ", "e", "s">> }

-----------------------------------------------------------------------------
(* str.strip() and str.lower() on sequences of one-character atoms.        *)

RECURSIVE lstrip(_)
lstrip(s) ==
    IF s # <<>> /\ Head(s) \in Whitespace THEN lstrip(Tail(s)) ELSE s

RECURSIVE rstrip(_)
rstrip(s) ==
    IF s # <<>> /\ s[Len(s)] \in Whitespace
    THEN rstrip(SubSeq(s, 1, Len(s) - 1))
    ELSE s

strip(s) == rstrip(lstrip(s))

lowerChar(c) ==
    CASE c = "E" -> "e"
      [] c = "X" -> "x"
      [] c = "I" -> "i"
      [] c = "T" -> "t"
      [] c = "Y" -> "y"
      [] c = "S" -> "s"
      [] c = "H" -> "h"
      [] c = "N" -> "n"
      [] c = "O" -> "o"
      [] OTHER -> c

lower(s) == [i \in 1..Len(s) |-> lowerChar(s[i])]

-----------------------------------------------------------------------------
(* Templates, chains and rendering.                                        *)

Lit(s) == [kind |-> "lit", s |-> s]
Var(s) == [kind |-> "var", s |-> s]

create_llm(model, temperature) == [model |-> model, temperature |-> temperature]

create_prompt_template(template, input_variables) ==
    [template |-> template, input_variables |-> input_variables]

create_chain(llm, prompt) == [llm |-> llm, prompt |-> prompt]

NoChain == [llm |-> create_llm("", 0), prompt |-> create_prompt_template(<<>>, <<>>)]

\* The rendered prompt: every placeholder replaced by its value, verbatim.
RECURSIVE format(_, _)
format(template, values) ==
    IF template = <<>> THEN <<>>
    ELSE (IF Head(template).kind = "var"
          THEN values[Head(template).s]
          ELSE <<Head(template).s>>) \o format(Tail(template), values)

\* Temperatures are kept in tenths (0.7 is 7).
simple_prompt ==
    create_prompt_template(
        <<Lit("Explain "), Var("topic"),
          Lit(" in simple terms that a beginner could understand.")>>,
        <<"topic">>)

simple_chain == create_chain(create_llm("gpt-3.5-turbo", 7), simple_prompt)

\* The list of demonstrate_simple_chain with its first two topics exchanged.
topics_exchanged == << <<"neural networks">>, <<"machine learning">>,
                       <<"natural language processing">> >>

topics == << <<"machine learning">>, <<"neural networks">>,
             <<"natural language processing">> >>

creative_prompt ==
    create_prompt_template(
        <<Lit("Write a short creative story (2-3 paragraphs) about "),
          Var("subject"), Lit(" in the genre of "), Var("genre"), Lit(".")>>,
        <<"subject", "genre">>)

creative_chain == create_chain(create_llm("gpt-3.5-turbo", 9), creative_prompt)

creative_values ==
    [k \in {"subject", "genre"} |->
        IF k = "subject" THEN <<"a robot learning to paint">>
        ELSE <<"science fiction">>]

structured_prompt ==
    create_prompt_template(
        <<Lit("Analyze the following concept and provide a structured response:\n\nConcept: "),
          Var("concept"),
          Lit("\n\nPlease provide:\n1. Definition (1-2 sentences)\n2. Key characteristics (3 bullet points)\n3. Real-world applications (2-3 examples)\n4. Related concepts (2-3 items)")>>,
        <<"concept">>)

structured_chain == create_chain(create_llm("gpt-3.5-turbo", 3), structured_prompt)

structured_values ==
    [k \in {"concept"} |-> <<"API (Application Programming Interface)">>]

translation_prompt ==
    create_prompt_template(
        <<Lit("Translate the following text from "), Var("source_language"),
          Lit(" to "), Var("target_language"), Lit(".\n\nText: "), Var("text"),
          Lit("\n\nTranslation:")>>,
        <<"source_language", "target_language", "text">>)

translation_chain == create_chain(create_llm("gpt-3.5-turbo", 3), translation_prompt)

translation_values ==
    [k \in {"source_language", "target_language", "text"} |->
        CASE k = "source_language" -> <<"English">>
          [] k = "target_language" -> <<"Spanish">>
          [] OTHER ->
             <<"Artificial intelligence is transforming how we interact with technology.">>]

interactive_prompt ==
    create_prompt_template(
        <<Lit("You are a helpful AI assistant. Answer the following question clearly and concisely:\n\n"),
          Var("question")>>,
        <<"question">>)

interactive_chain == create_chain(create_llm("gpt-3.5-turbo", 7), interactive_prompt)

-----------------------------------------------------------------------------
(* chain.run: the blocking call to the backend.                            *)

\* chain.run(x): the one positional argument is the chain's only input.
PositionalValues(ch, arg) ==
    [k \in {ch.prompt.input_variables[1]} |-> arg]

\* A chain with conversation memory: the prompt of the previous call is sent
\* again in front of the new one.
LLMChain_prompt_with_memory(ch, values) ==
    (IF calls = <<>> THEN <<>> ELSE calls[Len(calls)].rendered)
        \o format(ch.prompt.template, values)

\* The prompt chain.run submits for the given values.
LLMChain_prompt(ch, values) == format(ch.prompt.template, values)

\* Entry to chain.run: the call is recorded as pending until the backend
\* answers.
StartCall(where, ch, values) ==
    Append(calls, [where    |-> where,
                   prompt   |-> ch.prompt,
                   values   |-> values,
                   rendered |-> LLMChain_prompt(ch, values),
                   outcome  |-> "pending",
                   response |-> ""])

\* Where control goes when chain.run returns at position p.
AfterCall(p) ==
    CASE p = "demo1_call" ->
             IF topicIdx < Len(topics) THEN "demo1_loop" ELSE "demo2"
      [] p = "demo2_call" -> "demo3"
      [] p = "demo3_call" -> "demo4"
      [] p = "demo4_call" -> "ask"
      [] p = "interactive_call" -> "prompting"

\* A caller that submits again after a failure.
Propagate_retry(p) ==
    CASE p = "demo1_call" -> "demo1_loop"
      [] p = "demo2_call" -> "demo2"
      [] p = "demo3_call" -> "demo3"
      [] p = "demo4_call" -> "demo4"
      [] p = "interactive_call" -> "prompting"

\* Where control goes when chain.run raises at position p: no call site is
\* inside a try block, and neither is main(), so the program ends.
Propagate(p) == "crashed"

\* The function whose frame the exception leaves first.
Site(p) ==
    CASE p = "demo1_call" -> "demonstrate_simple_chain"
      [] p = "demo2_call" -> "demonstrate_creative_chain"
      [] p = "demo3_call" -> "demonstrate_structured_output_chain"
      [] p = "demo4_call" -> "demonstrate_translation_chain"
      [] p = "interactive_call" -> "interactive_mode"

CallPositions ==
    {"demo1_call", "demo2_call", "demo3_call", "demo4_call", "interactive_call"}

\* A check that accepts a variable that is set but empty.
key_unset(env) == "OPENAI_API_KEY" \notin DOMAIN env

\* not os.getenv("OPENAI_API_KEY")
key_missing(env) ==
    ~("OPENAI_API_KEY" \in DOMAIN env /\ env["OPENAI_API_KEY"] # "")

\* A comparison that forgets lower().
is_exit_case_sensitive(question) == question = <<"e", "x", "i", "t">>

\* question.lower() == "exit"
is_exit(question) == lower(question) = <<"e", "x", "i", "t">>

\* A loop without the check for an empty question.
is_empty_unchecked(question) == FALSE

\* not question
is_empty(question) == question = <<>>

\* A test that knows "yes" only.
wants_interactive_yes_only(user_input) == user_input = <<"y", "e", "s">>

\* user_input in ["yes", "y"]
wants_interactive(user_input) ==
    user_input \in { <<"y", "e", "s">>, <<"y">> }

NoError == [kind |-> "none", at |-> "none"]

Init ==
    /\ pc = "main"
    /\ environ \in Environments
    /\ chain = NoChain
    /\ topicIdx = 0
    /\ calls = <<>>
    /\ printed = <<>>
    /\ answer = <<>>
    /\ linesRead = <<>>
    /\ raised = NoError

\* load_environment(), called first by main().
load_environment ==
    /\ pc = "main"
    /\ IF key_missing(environ)
       THEN /\ pc' = "crashed"
            /\ raised' = [kind |-> "ValueError", at |-> "load_environment"]
            /\ UNCHANGED printed
       ELSE /\ pc' = "demo1"
            /\ printed' = Append(printed, "env_loaded")
            /\ UNCHANGED raised
    /\ UNCHANGED <<environ, chain, topicIdx, calls, answer, linesRead>>

\* demonstrate_simple_chain(): the chain is built once, before the loop.
demonstrate_simple_chain ==
    /\ pc = "demo1"
    /\ chain' = simple_chain
    /\ topicIdx' = 1
    /\ pc' = "demo1_loop"
    /\ UNCHANGED <<environ, calls, printed, answer, linesRead, raised>>

\* One iteration of the for loop, up to the entry of chain.run(topic).
simple_chain_run ==
    /\ pc = "demo1_loop"
    /\ topicIdx <= Len(topics)
    /\ calls' = StartCall("demo1", chain,
                          PositionalValues(chain, topics[topicIdx]))
    /\ pc' = "demo1_call"
    /\ UNCHANGED <<environ, chain, topicIdx, printed, answer, linesRead, raised>>

\* demonstrate_creative_chain(), up to the entry of chain.run.
demonstrate_creative_chain ==
    /\ pc = "demo2"
    /\ chain' = creative_chain
    /\ calls' = StartCall("demo2", chain', creative_values)
    /\ pc' = "demo2_call"
    /\ UNCHANGED <<environ, topicIdx, printed, answer, linesRead, raised>>

\* demonstrate_structured_output_chain(), up to the entry of chain.run.
demonstrate_structured_output_chain ==
    /\ pc = "demo3"
    /\ chain' = structured_chain
    /\ calls' = StartCall("demo3", chain', structured_values)
    /\ pc' = "demo3_call"
    /\ UNCHANGED <<environ, topicIdx, printed, answer, linesRead, raised>>

\* demonstrate_translation_chain(), up to the entry of chain.run.
demonstrate_translation_chain ==
    /\ pc = "demo4"
    /\ chain' = translation_chain
    /\ calls' = StartCall("demo4", chain', translation_values)
    /\ pc' = "demo4_call"
    /\ UNCHANGED <<environ, topicIdx, printed, answer, linesRead, raised>>

\* chain.run returns the backend's text and the caller prints it.
chain_run_returns ==
    /\ pc \in CallPositions
    /\ \E r \in Responses :
         /\ calls' = [calls EXCEPT ![Len(calls)].outcome = "ok",
                                   ![Len(calls)].response = r]
         /\ printed' = Append(printed, r)
    /\ topicIdx' = IF pc = "demo1_call" THEN topicIdx + 1 ELSE topicIdx
    /\ pc' = AfterCall(pc)
    /\ UNCHANGED <<environ, chain, answer, linesRead, raised>>

\* chain.run raises: the exception leaves the caller and then main().
chain_run_raises ==
    /\ pc \in CallPositions
    /\ calls' = [calls EXCEPT ![Len(calls)].outcome = "error"]
    /\ pc' = Propagate(pc)
    /\ raised' = IF pc' = "crashed"
                 THEN [kind |-> "backend", at |-> Site(pc)]
                 ELSE raised
    /\ UNCHANGED <<environ, chain, topicIdx, printed, answer, linesRead>>

\* main() after the demonstrations: the question and the branch on it.
main_ask ==
    /\ pc = "ask"
    /\ \E line \in Answers :
         LET user_input == lower(strip(line)) IN
         /\ answer' = line
         /\ IF wants_interactive(user_input)
            THEN /\ pc' = "interactive"
                 /\ UNCHANGED printed
            ELSE /\ printed' = Append(printed, "completed")
                 /\ pc' = "done"
    /\ UNCHANGED <<environ, chain, topicIdx, calls, linesRead, raised>>

\* interactive_mode() up to its loop: the banner and the chain, built once.
interactive_mode ==
    /\ pc = "interactive"
    /\ printed' = Append(printed, "INTERACTIVE MODE")
    /\ chain' = interactive_chain
    /\ pc' = "prompting"
    /\ UNCHANGED <<environ, topicIdx, calls, answer, linesRead, raised>>

\* One iteration of the while loop of interactive_mode(), from input() to
\* the break, the continue or the entry of chain.run.
interactive_read ==
    /\ pc = "prompting"
    /\ Len(linesRead) < MaxLines
    /\ \E line \in Lines :
         LET question == strip(line) IN
         /\ linesRead' = Append(linesRead, line)
         /\ IF is_exit(question)
            THEN /\ printed' = Append(printed, "Goodbye")
                 /\ pc' = "done"
                 /\ UNCHANGED calls
            ELSE IF is_empty(question)
            THEN /\ printed' = Append(printed, "Please enter a valid question.")
                 /\ pc' = "prompting"
                 /\ UNCHANGED calls
            ELSE /\ calls' = StartCall("interactive", chain,
                                       [k \in {"question"} |-> question])
                 /\ pc' = "interactive_call"
                 /\ UNCHANGED printed
    /\ UNCHANGED <<environ, chain, topicIdx, answer, raised>>

Next ==
    \/ load_environment
    \/ demonstrate_simple_chain
    \/ simple_chain_run
    \/ demonstrate_creative_chain
    \/ demonstrate_structured_output_chain
    \/ demonstrate_translation_chain
    \/ chain_run_returns
    \/ chain_run_raises
    \/ main_ask
    \/ interactive_mode
    \/ interactive_read

Spec == Init /\ [][Next]_vars

-----------------------------------------------------------------------------
(* Vocabulary of the properties, stated without strip, lower or format.    *)

\* q is l without its leading and trailing whitespace.
Trimmed(q, l) ==
    \E i \in 1..(Len(l) + 1) : \E j \in 0..Len(l) :
        /\ q = SubSeq(l, i, j)
        /\ \A k \in 1..(i - 1) : l[k] \in Whitespace
        /\ \A k \in (j + 1)..Len(l) : l[k] \in Whitespace
        /\ q # <<>> => (q[1] \notin Whitespace /\ q[Len(q)] \notin Whitespace)

UpperOf(c) ==
    CASE c = "e" -> "E" [] c = "x" -> "X" [] c = "i" -> "I" [] c = "t" -> "T"
      [] c = "y" -> "Y" [] c = "s" -> "S" [] OTHER -> c

\* l, trimmed, is the lower-case word w up to the case of its letters.
IsWord(l, w) ==
    \E q \in {SubSeq(l, i, j) : i \in 1..(Len(l) + 1), j \in 0..Len(l)} :
        /\ Trimmed(q, l)
        /\ Len(q) = Len(w)
        /\ \A k \in 1..Len(w) : q[k] \in {w[k], UpperOf(w[k])}

IsExitLine(l) == IsWord(l, <<"e", "x", "i", "t">>)
IsBlankLine(l) == \A k \in 1..Len(l) : l[k] \in Whitespace
IsYes(l) == IsWord(l, <<"y", "e", "s">>) \/ IsWord(l, <<"y">>)

InteractiveCalls == SelectSeq(calls, LAMBDA c : c.where = "interactive")
DemoCalls == SelectSeq(calls, LAMBDA c : c.where # "interactive")

\* The lines read so far that are neither blank nor an exit line.
Questions == SelectSeq(linesRead, LAMBDA l : ~IsBlankLine(l) /\ ~IsExitLine(l))

Count(seq, x) == Cardinality({i \in 1..Len(seq) : seq[i] = x})

SecretAbsent ==
    \/ "OPENAI_API_KEY" \notin DOMAIN environ
    \/ environ["OPENAI_API_KEY"] = ""

-----------------------------------------------------------------------------
\* C1: when OPENAI_API_KEY is absent or empty, no chain.run call is ever
\* made: the program is either still at the start of main() or has ended
\* with the ValueError raised by load_environment.
C1_NoCallWithoutSecret ==
    SecretAbsent =>
        /\ calls = <<>>
        /\ pc \in {"main", "crashed"}
        /\ pc = "crashed" =>
             raised = [kind |-> "ValueError", at |-> "load_environment"]

C1_Witness ==
    /\ environ = [n \in {"OPENAI_API_KEY"} |-> ""]
    /\ pc = "crashed"
    /\ raised.at = "load_environment"

\* C2: in interactive mode no line is read after an exit line; reading an
\* exit line ends the loop and is not forwarded; the loop ends normally only
\* on an exit line; and the calls made are exactly the non-blank lines read
\* before it, trimmed, each as the single parameter "question" of the fixed
\* one-parameter template, one call per line, in input order.
C2_ExitEndsLoopOthersForwarded ==
    LET n == Len(linesRead) IN
    /\ \A i \in 1..(n - 1) : ~IsExitLine(linesRead[i])
    /\ (n > 0 /\ IsExitLine(linesRead[n])) =>
          (pc = "done" /\ printed[Len(printed)] = "Goodbye")
    /\ (pc = "done" /\ n > 0) => IsExitLine(linesRead[n])
    /\ Len(InteractiveCalls) = Len(Questions)
    /\ \A i \in 1..Len(InteractiveCalls) :
          /\ DOMAIN InteractiveCalls[i].values = {"question"}
          /\ Trimmed(InteractiveCalls[i].values["question"], Questions[i])
          /\ InteractiveCalls[i].prompt.input_variables = <<"question">>
          /\ ~IsExitLine(InteractiveCalls[i].values["question"])

C2_Witness ==
    /\ Len(linesRead) = 3
    /\ linesRead[1] = <<" ", "H", "i", " ">>
    /\ linesRead[2] = <<"e", "x", "i", "t", "s">>
    /\ linesRead[3] = <<" ", "E", "x", "I", "T", " ">>
    /\ Len(InteractiveCalls) = 2
    /\ pc = "done"

\* C3: a failed chain.run in interactive mode does not end the program: the
\* loop goes on to prompt for the next question.
C3_FailedQueryContinues ==
    \A i \in 1..Len(calls) :
        (calls[i].where = "interactive" /\ calls[i].outcome = "error")
            => pc \in {"prompting", "interactive_call", "done"} /\ raised = NoError

\* C4: a chain.run call that fails is not retried and nothing is printed for
\* it: the failed call is the last call the program makes, the program ends
\* with the backend's exception raised from that call site, and the
\* responses printed are exactly those of the calls that returned, in order.
C4_FailurePropagatesNoRetry ==
    /\ \A i \in 1..Len(calls) :
          calls[i].outcome = "error" =>
              /\ i = Len(calls)
              /\ raised.kind = "backend"
              /\ calls[i].where = "interactive" <=> raised.at = "interactive_mode"
              /\ calls[i].where = "demo1" <=> raised.at = "demonstrate_simple_chain"
    /\ LET returned == SelectSeq(calls, LAMBDA c : c.outcome = "ok")
           shown == SelectSeq(printed, LAMBDA x : x \in Responses)
       IN /\ Len(shown) = Len(returned)
          /\ \A i \in 1..Len(shown) : shown[i] = returned[i].response
    /\ \A i \in 1..Len(calls) : calls[i].outcome = "pending" => i = Len(calls)

C4_Witness ==
    /\ Len(calls) = 2
    /\ calls[1].outcome = "ok"
    /\ calls[2].outcome = "error"
    /\ raised.at = "demonstrate_simple_chain"

\* C7: the template of a chain is the same at every call of one
\* demonstration or mode, and the prompt of a call depends only on that
\* template and the values of that call: it is as long as the template with
\* each placeholder widened to its value, every piece of it is a literal of
\* the template or a piece of one of the call's own values, no response of
\* the backend appears in it, and two calls with the same template and the
\* same values send the same prompt.
C7_TemplateReusedStateless ==
    /\ \A i, j \in 1..Len(calls) :
          /\ calls[i].where = calls[j].where => calls[i].prompt = calls[j].prompt
          /\ (calls[i].prompt = calls[j].prompt /\ calls[i].values = calls[j].values)
                => calls[i].rendered = calls[j].rendered
    /\ \A i \in 1..Len(calls) :
          LET t == calls[i].prompt.template
              v == calls[i].values
              r == calls[i].rendered
              own == {t[k].s : k \in {m \in 1..Len(t) : t[m].kind = "lit"}}
                       \cup UNION {{v[n][k] : k \in 1..Len(v[n])} : n \in DOMAIN v}
          IN /\ \A k \in 1..Len(r) : r[k] \in own /\ r[k] \notin Responses
             /\ \A x \in own : \E k \in 1..Len(r) : r[k] = x
    /\ (/\ calls # <<>>
        /\ pc \in CallPositions \cup {"demo1_loop", "prompting"}
        /\ pc = "prompting" => InteractiveCalls # <<>>)
          => chain.prompt = calls[Len(calls)].prompt

C7_Witness ==
    /\ Len(InteractiveCalls) = 2
    /\ InteractiveCalls[1].values = InteractiveCalls[2].values
    /\ InteractiveCalls[1].outcome = "ok"
    /\ Len(DemoCalls) = 6

\* C8: the demonstrations run one after the other in the fixed order: at
\* most one call is pending and it is the last one made; while no call has
\* failed the demonstration calls made are a prefix of the six expected
\* ones; and the interactive-mode question is reached only with all six made
\* and returned.
ExpectedDemoCalls ==
    << <<"demo1", [k \in {"topic"} |-> <<"machine learning">>]>>,
       <<"demo1", [k \in {"topic"} |-> <<"neural networks">>]>>,
       <<"demo1", [k \in {"topic"} |-> <<"natural language processing">>]>>,
       <<"demo2", [k \in {"subject", "genre"} |->
                     IF k = "genre" THEN <<"science fiction">>
                     ELSE <<"a robot learning to paint">>]>>,
       <<"demo3", [k \in {"concept"} |->
                     <<"API (Application Programming Interface)">>]>>,
       <<"demo4", [k \in {"source_language", "target_language", "text"} |->
                     IF k = "source_language" THEN <<"English">>
                     ELSE IF k = "target_language" THEN <<"Spanish">>
                     ELSE <<"Artificial intelligence is transforming how we interact with technology.">>]>> >>

C8_SequentialFixedOrder ==
    /\ Cardinality({i \in 1..Len(calls) : calls[i].outcome = "pending"}) <= 1
    /\ \A i \in 1..Len(calls) : calls[i].outcome = "pending" => i = Len(calls)
    /\ Len(DemoCalls) <= 6
    /\ \A i \in 1..Len(DemoCalls) :
          /\ <<DemoCalls[i].where, DemoCalls[i].values>> = ExpectedDemoCalls[i]
          /\ calls[i] = DemoCalls[i]
          /\ i < Len(DemoCalls) => DemoCalls[i].outcome = "ok"
    /\ (pc \in {"ask", "interactive", "prompting", "interactive_call", "done"}) =>
          /\ Len(DemoCalls) = 6
          /\ \A i \in 1..6 : DemoCalls[i].outcome = "ok"
    /\ pc = "ask" => (Len(calls) = 6 /\ linesRead = <<>>)

C8_Witness ==
    /\ pc = "ask"
    /\ Len(calls) = 6
    /\ calls[6].outcome = "ok"

\* C9: a blank line never reaches the backend: each blank line read is
\* answered by the notice and by a new prompt, and the number of calls made
\* in interactive mode is the number of lines read that are neither blank
\* nor an exit line.
C9_BlankLineNotForwarded ==
    LET n == Len(linesRead)
        blanks == Cardinality({i \in 1..n : IsBlankLine(linesRead[i])})
        others == Cardinality({i \in 1..n :
                      ~IsBlankLine(linesRead[i]) /\ ~IsExitLine(linesRead[i])})
    IN /\ Count(printed, "Please enter a valid question.") = blanks
       /\ Len(InteractiveCalls) = others
       /\ \A i \in 1..Len(InteractiveCalls) :
             ~IsBlankLine(InteractiveCalls[i].values["question"])
       /\ (n > 0 /\ IsBlankLine(linesRead[n])) =>
             /\ pc = "prompting"
             /\ printed[Len(printed)] = "Please enter a valid question."
             /\ \A i \in 1..Len(calls) : calls[i].outcome # "pending"

C9_Witness ==
    /\ Len(linesRead) = 3
    /\ linesRead[1] = <<" ", "\t">>
    /\ linesRead[2] = <<"h", "i">>
    /\ linesRead[3] = <<>>
    /\ Len(InteractiveCalls) = 1
    /\ pc = "prompting"

\* C10: once main() has read the answer, interactive mode has been entered
\* if and only if the answer, trimmed and lower-cased, is "yes" or "y"; on
\* any other answer the completion message is printed last, the program has
\* ended and no call beyond the six of the demonstrations is made.
Answered ==
    \/ pc \in {"interactive", "prompting", "interactive_call", "done"}
    \/ pc = "crashed" /\ raised.at = "interactive_mode"

Entered ==
    \/ pc \in {"interactive", "prompting", "interactive_call"}
    \/ Count(printed, "INTERACTIVE MODE") = 1

C10_InteractiveIffYes ==
    /\ ~Answered => (~Entered /\ Count(printed, "completed") = 0)
    /\ Answered =>
        /\ Entered <=> IsYes(answer)
        /\ (Count(printed, "completed") = 1) <=> ~IsYes(answer)
        /\ ~IsYes(answer) =>
              /\ pc = "done"
              /\ printed[Len(printed)] = "completed"
              /\ Len(calls) = 6
              /\ linesRead = <<>>
              /\ chain = translation_chain

C10_Witness ==
    /\ answer = <<"y", " ", "e", "s">>
    /\ pc = "done"
    /\ printed[Len(printed)] = "completed"

====
